---- MODULE Spec2Model ----
(***************************************************************************)
(* tinygit: a content-addressable object store with one branch reference.  *)
(*                                                                         *)
(* Two builds of the program are modelled side by side:                    *)
(*   "tinygit"   src/myrepo/tinygit.cpp (hand-written SHA-1, streaming     *)
(*               deflate/inflate)                                          *)
(*   "combined"  src/unnamed/part_000 lines 121-304 (OpenSSL SHA-1,        *)
(*               one-shot compress/uncompress)                             *)
(* A std::string is a sequence of byte values 0..255.                      *)
(***************************************************************************)
EXTENDS Integers, Sequences, FiniteSets, TLC

(***************************************************************************)
(* Bytes and strings                                                       *)
(***************************************************************************)
NUL == <<0>>

SP == <<32>>

LF == <<10>>

Min(a, b) == IF a < b THEN a ELSE b

RECURSIVE to_string(_)
\* std::to_string of a non-negative integer: its decimal digits as characters.
to_string(n) ==
    IF n < 10 THEN <<48 + n>> ELSE to_string(n \div 10) \o <<48 + (n % 10)>>

\* s.substr(pos): the suffix from 0-based position pos (the caller checks
\* pos <= size; beyond that std::string::substr throws std::out_of_range).
substr_from(s, pos) == SubSeq(s, pos + 1, Len(s))

\* s.substr(pos, n): at most n characters from 0-based position pos.
substr(s, pos, n) ==
    SubSeq(s, pos + 1, IF pos + n < Len(s) THEN pos + n ELSE Len(s))

\* s.find('\0'): 0-based position of the first NUL byte, -1 for npos.
find_nul(s) ==
    IF \E i \in 1..Len(s) : s[i] = 0
    THEN (CHOOSE i \in 1..Len(s) : s[i] = 0 /\ \A j \in 1..(i - 1) : s[j] # 0) - 1
    ELSE -1

(***************************************************************************)
(* SHA-1.  A uint32_t is a pair <<hi, lo>> of 16-bit halves; every         *)
(* operation wraps at 2^32 as the C++ arithmetic does.                     *)
(***************************************************************************)
H16 == 65536

\* Bitwise operations on 4-bit digits, bit by bit.
XorNib(x, y) ==
    ((x + y) % 2) + 2 * (((x \div 2) + (y \div 2)) % 2)
    + 4 * (((x \div 4) + (y \div 4)) % 2) + 8 * (((x \div 8) + (y \div 8)) % 2)

AndNib(x, y) ==
    ((x % 2) * (y % 2)) + 2 * (((x \div 2) % 2) * ((y \div 2) % 2))
    + 4 * (((x \div 4) % 2) * ((y \div 4) % 2)) + 8 * ((x \div 8) * (y \div 8))

\* a ^ b on 16-bit halves, digit by digit.
Xor16(a, b) ==
    XorNib(a % 16, b % 16) + 16 * XorNib((a \div 16) % 16, (b \div 16) % 16)
    + 256 * XorNib((a \div 256) % 16, (b \div 256) % 16)
    + 4096 * XorNib(a \div 4096, b \div 4096)

\* a & b on 16-bit halves, digit by digit.
And16(a, b) ==
    AndNib(a % 16, b % 16) + 16 * AndNib((a \div 16) % 16, (b \div 16) % 16)
    + 256 * AndNib((a \div 256) % 16, (b \div 256) % 16)
    + 4096 * AndNib(a \div 4096, b \div 4096)

\* a | b on 16-bit halves.
Or16(a, b) == a + b - And16(a, b)

WXor(x, y) == <<Xor16(x[1], y[1]), Xor16(x[2], y[2])>>

WAnd(x, y) == <<And16(x[1], y[1]), And16(x[2], y[2])>>

WOr(x, y) == <<Or16(x[1], y[1]), Or16(x[2], y[2])>>

WNot(x) == <<H16 - 1 - x[1], H16 - 1 - x[2]>>

\* uint32_t addition, wrapping at 2^32.
WAdd(x, y) ==
    LET lo == x[2] + y[2]
    IN  <<(x[1] + y[1] + (lo \div H16)) % H16, lo % H16>>

\* The uint32_t sum of five words, wrapping at 2^32.
WAdd5(a, b, c, d, e) ==
    LET lo == a[2] + b[2] + c[2] + d[2] + e[2]
    IN  <<(a[1] + b[1] + c[1] + d[1] + e[1] + (lo \div H16)) % H16, lo % H16>>

Pow2(n) == IF n = 0 THEN 1 ELSE IF n = 1 THEN 2 ELSE IF n = 5 THEN 32
           ELSE IF n = 11 THEN 2048 ELSE IF n = 14 THEN 16384
           ELSE IF n = 15 THEN 32768 ELSE IF n = 2 THEN 4 ELSE 1

\* (x << n) | (x >> (32 - n)) for 0 < n < 16.
RotlSmall(x, n) ==
    <<((x[1] * Pow2(n)) % H16) + (x[2] \div Pow2(16 - n)),
      ((x[2] * Pow2(n)) % H16) + (x[1] \div Pow2(16 - n))>>

\* (x << n) | (x >> (32 - n)) for the rotations SHA-1 uses: 1, 5 and 30.
Rotl(x, n) == IF n < 16 THEN RotlSmall(x, n) ELSE RotlSmall(<<x[2], x[1]>>, n - 16)

\* n zero bytes.
Zeros(n) == [i \in 1..n |-> 0]

\* Padding: the bit '1', zeros up to 448 mod 512 bits, then the length in bits
\* as a 64-bit big-endian integer (inputs here are shorter than 2^13 bytes).
sha1_padded(data) ==
    LET n == Len(data)
        z == (55 - n) % 64
        bits == n * 8
    IN  data \o <<128>> \o Zeros(z) \o Zeros(6) \o <<bits \div 256, bits % 256>>

\* The 16 big-endian words of the 64-byte block at 0-based offset; word i of
\* the source is element i + 1 here.
sha1_block(padded, offset) ==
    [i \in 1..16 |->
        <<padded[offset + i * 4 - 3] * 256 + padded[offset + i * 4 - 2],
          padded[offset + i * 4 - 1] * 256 + padded[offset + i * 4]>>]

\* w[i] of the source for 16 <= i < 80, from the words 0..i-1 (elements 1..i).
sha1_word(w, i) ==
    Rotl(WXor(WXor(w[i - 2], w[i - 7]), WXor(w[i - 13], w[i - 15])), 1)

RECURSIVE sha1_extend(_, _, _)
\* Extends w (words 0..from-1) to words 0..to-1, one word at a time in order.
\* The range is cut in four and each part is computed before the next
\* starts, which keeps the evaluation shallow.
sha1_extend(w, from, to) ==
    IF to <= from THEN w
    ELSE IF to - from = 1 THEN Append(w, sha1_word(w, from))
    ELSE LET q == (to - from + 3) \div 4
             w1 == sha1_extend(w, from, Min(from + q, to))
             w2 == sha1_extend(w1, from + q, Min(from + 2 * q, to))
             w3 == sha1_extend(w2, from + 2 * q, Min(from + 3 * q, to))
         IN  IF Len(w1) > 0 /\ Len(w2) > 0 /\ Len(w3) > 0
             THEN sha1_extend(w3, from + 3 * q, to)
             ELSE w

sha1_f(i, b, c, d) ==
    IF i < 20 THEN WOr(WAnd(b, c), WAnd(WNot(b), d))
    ELSE IF i < 40 THEN WXor(WXor(b, c), d)
    ELSE IF i < 60 THEN WOr(WOr(WAnd(b, c), WAnd(b, d)), WAnd(c, d))
    ELSE WXor(WXor(b, c), d)

sha1_k(i) ==
    IF i < 20 THEN <<23170, 31129>>          \* 0x5A827999
    ELSE IF i < 40 THEN <<28377, 60321>>     \* 0x6ED9EBA1
    ELSE IF i < 60 THEN <<36635, 48348>>     \* 0x8F1BBCDC
    ELSE <<51810, 49622>>                    \* 0xCA62C1D6

\* One iteration of the main loop: s = <<a, b, c, d, e>>.
sha1_round(w, s, i) ==
    LET f == sha1_f(i, s[2], s[3], s[4])
        temp == WAdd5(Rotl(s[1], 5), f, s[5], sha1_k(i), w[i + 1])
    IN  <<temp, s[1], Rotl(s[2], 30), s[3], s[4]>>

RECURSIVE sha1_rounds(_, _, _, _)
\* Iterations from..to-1 of the main loop, applied in order.  The range is
\* cut in four and each part is computed before the next starts, which
\* keeps the evaluation shallow.
sha1_rounds(w, s, from, to) ==
    IF to <= from THEN s
    ELSE IF to - from = 1 THEN sha1_round(w, s, from)
    ELSE LET q == (to - from + 3) \div 4
             s1 == sha1_rounds(w, s, from, Min(from + q, to))
             s2 == sha1_rounds(w, s1, from + q, Min(from + 2 * q, to))
             s3 == sha1_rounds(w, s2, from + 2 * q, Min(from + 3 * q, to))
         IN  IF Len(s1) > 0 /\ Len(s2) > 0 /\ Len(s3) > 0
             THEN sha1_rounds(w, s3, from + 3 * q, to)
             ELSE s

\* h0 += a; ... h4 += e: the state after a block, from the state before it
\* and the registers s = <<a, b, c, d, e>> the rounds end with.
sha1_sum(h, s) ==
    <<WAdd(h[1], s[1]), WAdd(h[2], s[2]), WAdd(h[3], s[3]), WAdd(h[4], s[4]),
      WAdd(h[5], s[5])>>

\* The block at offset: the 80 words of its schedule, the rounds, the sums.
sha1_chunk(padded, h, offset) ==
    sha1_sum(h, sha1_rounds(sha1_extend(sha1_block(padded, offset), 16, 80), h, 0, 80))

RECURSIVE sha1_blocks(_, _, _)
\* The blocks from offset on, in order; h is the state before them.
sha1_blocks(padded, h, offset) ==
    IF offset >= Len(padded) \/ Len(h) # 5 THEN h
    ELSE sha1_blocks(padded, sha1_chunk(padded, h, offset), offset + 64)

sha1_init ==
    << <<26437, 8961>>,      \* 0x67452301
       <<61389, 43913>>,     \* 0xEFCDAB89
       <<39098, 56574>>,     \* 0x98BADCFE
       <<4146, 21622>>,      \* 0x10325476
       <<50130, 57840>> >>   \* 0xC3D2E1F0

HexDigit(v) == IF v < 10 THEN 48 + v ELSE 87 + v

\* std::hex, setw(4), setfill('0') of a 16-bit half.
Hex16(v) ==
    <<HexDigit(v \div 4096), HexDigit((v \div 256) % 16),
      HexDigit((v \div 16) % 16), HexDigit(v % 16)>>

\* The five words as 40 lowercase hexadecimal characters.
sha1_hex(h) ==
    Hex16(h[1][1]) \o Hex16(h[1][2]) \o Hex16(h[2][1]) \o Hex16(h[2][2])
    \o Hex16(h[3][1]) \o Hex16(h[3][2]) \o Hex16(h[4][1]) \o Hex16(h[4][2])
    \o Hex16(h[5][1]) \o Hex16(h[5][2])

\* The digest of data.
sha1_compute(data) == sha1_hex(sha1_blocks(sha1_padded(data), sha1_init, 0))

(***************************************************************************)
(* zlib.  The library is modelled by a small lossless codec with the same  *)
(* interface and the same stream layout: a two-byte header, a body that    *)
(* encodes runs of equal bytes and closes with an end marker, and the      *)
(* Adler-32 checksum of the uncompressed data as a four-byte trailer.      *)
(* Inputs of the model are shorter than 256 bytes, so a run length fits a  *)
(* byte.                                                                   *)
(***************************************************************************)
RECURSIVE SumRange(_, _, _)
\* f[lo] + ... + f[hi], by halving the range.
SumRange(f, lo, hi) ==
    IF hi < lo THEN 0
    ELSE IF lo = hi THEN f[lo]
    ELSE LET mid == (lo + hi) \div 2
         IN  SumRange(f, lo, mid) + SumRange(f, mid + 1, hi)

AdlerBase == 65521

\* adler32(data) as four big-endian bytes: b = sum of the running values of a.
Adler32(data) ==
    LET n == Len(data)
        a == (1 + SumRange(data, 1, n)) % AdlerBase
        b == (n + SumRange([i \in 1..n |-> (n - i + 1) * data[i]], 1, n)) % AdlerBase
    IN  <<b \div 256, b % 256, a \div 256, a % 256>>

ZHeader == <<120, 156>>

\* The positions at which a run of equal bytes starts, in order.
RunStarts(data) ==
    SelectSeq([i \in 1..Len(data) |-> i],
              LAMBDA i : i = 1 \/ data[i] # data[i - 1])

\* The body of the stream: <<length, byte>> for each run, then the end marker 0.
Deflate(data) ==
    LET st == RunStarts(data)
        m == Len(st)
        runlen(r) == (IF r = m THEN Len(data) + 1 ELSE st[r + 1]) - st[r]
    IN  [k \in 1..(2 * m) |->
            IF k % 2 = 1 THEN runlen((k + 1) \div 2) ELSE data[st[k \div 2]]]
        \o <<0>>

\* The whole stream compress()/deflate(Z_FINISH) produce for data.
ZStream(data) == ZHeader \o Deflate(data) \o Adler32(data)

RECURSIVE Expand(_, _, _)
\* The bytes the runs lo..hi of the body stand for (run r is z[2r+1], z[2r+2]).
Expand(z, lo, hi) ==
    IF hi < lo THEN <<>>
    ELSE IF lo = hi THEN [i \in 1..z[2 * lo + 1] |-> z[2 * lo + 2]]
    ELSE LET mid == (lo + hi) \div 2
         IN  Expand(z, lo, mid) \o Expand(z, mid + 1, hi)

\* What inflate makes of the stream z: status "end" (Z_STREAM_END, the whole
\* stream was valid), "data" (Z_DATA_ERROR: bad header or checksum) or "more"
\* (the input ended inside the stream), and the bytes decoded up to there.
Inflate(z) ==
    LET n == Len(z)
        hdr == SubSeq(z, 1, Min(n, 2))
        \* run r occupies z[2r+1..2r+2]; the marker is the first zero length
        ends == {r \in 1..((n - 1) \div 2) : z[2 * r + 1] = 0}
        complete == (n - 2) \div 2
        marker == IF ends = {} THEN 0
                  ELSE CHOOSE r \in ends : \A q \in ends : r <= q
        runs == IF marker = 0 THEN (IF complete < 0 THEN 0 ELSE complete)
                ELSE marker - 1
        out == Expand(z, 1, runs)
    IN  IF hdr # SubSeq(ZHeader, 1, Len(hdr)) THEN [status |-> "data", out |-> <<>>]
        ELSE IF n < 2 \/ marker = 0 THEN [status |-> "more", out |-> out]
        ELSE IF n < 2 * marker + 5 THEN [status |-> "more", out |-> out]
        ELSE IF SubSeq(z, 2 * marker + 2, 2 * marker + 5) # Adler32(out)
             THEN [status |-> "data", out |-> out]
        ELSE [status |-> "end", out |-> out]

(***************************************************************************)
(* Bounds of the model                                                     *)
(***************************************************************************)
\* Longest generated payload, in bytes.
MaxLen == 1

\* Largest value std::time(nullptr) returns.
MaxTime == 2

\* Number of commands run against one store.
MaxOps == 3

\* Length of the long run of equal bytes in the most compressible payload.
RunLen == 250

(***************************************************************************)
(* Inputs                                                                  *)
(***************************************************************************)
Builds == {"tinygit", "combined"}

\* The type names callers pass: "blob", "commit", "tree".
KindName ==
    [blob |-> <<98, 108, 111, 98>>,
     commit |-> <<99, 111, 109, 109, 105, 116>>,
     tree |-> <<116, 114, 101, 101>>]

Kinds == {"blob", "commit", "tree"}

\* "hello\n"
Hello == <<104, 101, 108, 108, 111, 10>>

\* "a\0b": a payload that itself contains a NUL byte.
WithNul == <<97, 0, 98>>

\* n bytes '1'.
Ones(n) == [i \in 1..n |-> 49]

\* The payloads "", "1", ... of at most MaxLen bytes, and the two above.
Payloads == {Ones(n) : n \in 0..MaxLen} \cup {Hello, WithNul}

\* What a caller hands to write_object.
Inputs == [kind : Kinds, data : Payloads]

\* A blob of RunLen equal bytes: it compresses to far less than a fifth of
\* its size.
Long == [kind |-> "blob", data |-> Ones(RunLen)]

\* What the environment does to one write_object call: nothing; compress /
\* deflateInit runs out of memory; create_directories fails; the object file
\* cannot be opened; the file is opened but the write fails.
Envs == {"ok", "nomem", "nodir", "noopen", "nowrite"}

(***************************************************************************)
(* Object store                                                            *)
(***************************************************************************)
\* The characters std::string's operator+ takes from a string literal: those
\* before its first NUL (a const char* ends there).
c_str(lit) == SubSeq(lit, 1, IF find_nul(lit) < 0 THEN Len(lit) ELSE find_nul(lit))

\* tinygit.cpp: header = type + " " + to_string(size) + "\0"; store = header + data.
store_tinygit(data, type) ==
    (KindName[type] \o SP \o to_string(Len(data)) \o c_str(NUL)) \o data

\* An encoding that leaves the type out.
store_untyped(data, type) == to_string(Len(data)) \o NUL \o data

\* combined: store = type + " " + to_string(size) + '\0' + data.
store_combined(data, type) ==
    KindName[type] \o SP \o to_string(Len(data)) \o NUL \o data

store_of(b, data, type) ==
    IF b = "tinygit" THEN store_tinygit(data, type) ELSE store_combined(data, type)

\* A path that shards on the first character only.
write_path_short(sha) == [dir |-> substr(sha, 0, 1), file |-> substr_from(sha, 1)]

\* ".tinygit/objects/" + sha.substr(0, 2) + "/" + sha.substr(2), as write_object
\* builds it: the shard directory and the file name in it.
write_path(sha) == [dir |-> substr(sha, 0, 2), file |-> substr_from(sha, 2)]

\* The same path as read_object builds it.
read_path(sha) == [dir |-> substr(sha, 0, 2), file |-> substr_from(sha, 2)]

\* files with the file at path holding bytes.
put_file(files, path, bytes) ==
    [q \in DOMAIN files \cup {path} |-> IF q = path THEN bytes ELSE files[q]]

\* A stream that would keep what the file already holds.
ofstream_append(files, path, bytes, env) ==
    IF env = "noopen" THEN files
    ELSE IF env = "nowrite" THEN put_file(files, path, <<>>)
    ELSE put_file(files, path,
                  (IF path \in DOMAIN files THEN files[path] ELSE <<>>) \o bytes)

\* std::ofstream out(file, std::ios::binary); out.write(bytes): the open
\* truncates or creates the file; a failed open or write is not noticed.
ofstream_write(files, path, bytes, env) ==
    IF env = "noopen" THEN files
    ELSE IF env = "nowrite" THEN put_file(files, path, <<>>)
    ELSE put_file(files, path, bytes)

\* The stream right after std::ofstream out(file, std::ios::binary): the file
\* exists and is empty, whatever it held before.
ofstream_open(files, path) == put_file(files, path, <<>>)

NoFiles == [q \in {} |-> <<>>]

(***************************************************************************)
(* Commit payloads                                                          *)
(***************************************************************************)
\* The messages given to commit -m: "first", "second".
Messages == {<<102, 105, 114, 115, 116>>, <<115, 101, 99, 111, 110, 100>>}

Times == 1..MaxTime

\* " +0000\n"
TzLine == <<32, 43, 48, 48, 48, 48, 10>>

\* tinygit.cpp: "tree dummy_sha\n", "author me <me@example.com> " t1 " +0000\n",
\* "committer me <me@example.com> " t2 " +0000\n\n", message, "\n"; t1 and t2
\* are two calls of std::time.
commit_payload_tinygit(msg, t1, t2) ==
    <<116, 114, 101, 101, 32, 100, 117, 109, 109, 121, 95, 115, 104, 97, 10>>
    \o <<97, 117, 116, 104, 111, 114, 32, 109, 101, 32, 60, 109, 101, 64, 101,
         120, 97, 109, 112, 108, 101, 46, 99, 111, 109, 62, 32>>
    \o to_string(t1) \o TzLine
    \o <<99, 111, 109, 109, 105, 116, 116, 101, 114, 32, 109, 101, 32, 60, 109,
         101, 64, 101, 120, 97, 109, 112, 108, 101, 46, 99, 111, 109, 62, 32>>
    \o to_string(t2) \o TzLine \o LF
    \o msg \o LF

\* combined: "tree dummy_tree_sha_placeholder\n",
\* "author Your Name <you@example.com> " t " +0000\n",
\* "committer Your Name <you@example.com> " t " +0000\n\n", message, "\n".
commit_payload_combined(msg, t) ==
    <<116, 114, 101, 101, 32, 100, 117, 109, 109, 121, 95, 116, 114, 101, 101,
      95, 115, 104, 97, 95, 112, 108, 97, 99, 101, 104, 111, 108, 100, 101, 114, 10>>
    \o <<97, 117, 116, 104, 111, 114, 32, 89, 111, 117, 114, 32, 78, 97, 109,
         101, 32, 60, 121, 111, 117, 64, 101, 120, 97, 109, 112, 108, 101, 46,
         99, 111, 109, 62, 32>>
    \o to_string(t) \o TzLine
    \o <<99, 111, 109, 109, 105, 116, 116, 101, 114, 32, 89, 111, 117, 114, 32,
         78, 97, 109, 101, 32, 60, 121, 111, 117, 64, 101, 120, 97, 109, 112,
         108, 101, 46, 99, 111, 109, 62, 32>>
    \o to_string(t) \o TzLine \o LF
    \o msg \o LF

\* Every commit payload a build can assemble from Messages and Times.
CommitPayloads(b) ==
    IF b = "tinygit"
    THEN UNION {{commit_payload_tinygit(m, t1, t2) :
                     m \in Messages, t2 \in {t \in Times : t >= t1}} : t1 \in Times}
    ELSE {commit_payload_combined(m, t) : m \in Messages, t \in Times}

(***************************************************************************)
(* Hashing and compression of the stores the model's inputs give rise to   *)
(* are computed once and looked up afterwards.                             *)
(***************************************************************************)
KnownStores ==
    UNION {{store_of(b, d, k) : d \in Payloads, k \in Kinds}
           \cup {store_of(b, d, "commit") : d \in CommitPayloads(b)}
           \cup {store_of(b, Long.data, Long.kind)} : b \in Builds}

ShaTable == [e \in KnownStores |-> sha1_compute(e)]

ZTable == [e \in KnownStores |-> ZStream(e)]

\* sha1(data): the SHA-1 digest of data as 40 hexadecimal characters.
sha1(data) == ShaTable[data]

\* compress(): the complete zlib stream for store (Z_OK).
compress(store) == ZTable[store]

\* The deflate(Z_FINISH) loop of tinygit.cpp: the chunks of at most 1024
\* bytes it collects until deflate stops returning Z_OK, concatenated.  When
\* deflateInit failed, deflate returns Z_STREAM_ERROR and nothing is collected.
deflate_loop(store, env) == IF env = "nomem" THEN <<>> ELSE compress(store)

WriteResult(returned, sha, err, files) ==
    [returned |-> returned, sha |-> sha, err |-> err, objects |-> files]

\* write_object of tinygit.cpp; returned = FALSE when an exception left it.
write_object_tinygit(files, data, type, env) ==
    LET store == store_tinygit(data, type)
        sha == sha1(store)
    IN  IF env = "nodir"
        THEN WriteResult(FALSE, <<>>, "filesystem_error", files)
        ELSE WriteResult(TRUE, sha, "",
                 ofstream_write(files, write_path(sha), deflate_loop(store, env), env))

\* write_object of the combined program.
write_object_combined(files, data, type, env) ==
    LET store == store_combined(data, type)
        sha == sha1(store)
    IN  IF env = "nomem"
        THEN WriteResult(TRUE, <<>>, "Compression failed!", files)
        ELSE IF env = "nodir"
        THEN WriteResult(FALSE, <<>>, "filesystem_error", files)
        ELSE WriteResult(TRUE, sha, "",
                 ofstream_write(files, write_path(sha), compress(store), env))

write_object(b, files, data, type, env) ==
    IF b = "tinygit" THEN write_object_tinygit(files, data, type, env)
    ELSE write_object_combined(files, data, type, env)

\* uncompress(dest, &destLen, source, sourceLen) with a destination of destLen
\* bytes: Z_BUF_ERROR when the output does not fit, Z_DATA_ERROR for a
\* damaged or incomplete stream, else Z_OK and the output.
uncompress(z, destLen) ==
    LET r == Inflate(z)
    IN  IF Len(r.out) > destLen \/ (r.status = "more" /\ destLen > 0 /\ Len(r.out) = destLen)
        THEN [ret |-> "Z_BUF_ERROR", out |-> <<>>, destLen |-> destLen]
        ELSE IF r.status = "end"
        THEN [ret |-> "Z_OK", out |-> r.out, destLen |-> Len(r.out)]
        ELSE [ret |-> "Z_DATA_ERROR", out |-> <<>>, destLen |-> Len(r.out)]

RECURSIVE uncompress_loop(_, _)
\* while (uncompress(...) == Z_BUF_ERROR) { decompressed_size *= 2; resize; }
uncompress_loop(z, decompressed_size) ==
    LET u == uncompress(z, decompressed_size)
    IN  IF u.ret = "Z_BUF_ERROR" THEN uncompress_loop(z, u.destLen * 2) ELSE u

RECURSIVE uncompress_sizes(_, _)
\* The values decompressed_size takes at the successive calls of uncompress
\* in that loop.
uncompress_sizes(z, decompressed_size) ==
    <<decompressed_size>>
    \o (IF uncompress(z, decompressed_size).ret = "Z_BUF_ERROR"
        THEN uncompress_sizes(z, uncompress(z, decompressed_size).destLen * 2)
        ELSE <<>>)

ReadResult(returned, ret, err) == [returned |-> returned, ret |-> ret, err |-> err]

\* read_object of tinygit.cpp.  A file that cannot be opened reads as empty;
\* the inflate loop keeps what was decoded when inflate stops returning Z_OK;
\* npos + 1 wraps to 0, so without a NUL the whole result is returned.
read_object_tinygit(files, sha) ==
    IF Len(sha) < 2 THEN ReadResult(FALSE, <<>>, "out_of_range")
    ELSE LET file == read_path(sha)
             compressed == IF file \in DOMAIN files THEN files[file] ELSE <<>>
             result == Inflate(compressed).out
             null_pos == find_nul(result)
         IN  ReadResult(TRUE, substr_from(result, null_pos + 1), "")

\* Start with a reasonable guess: five times the compressed size.
InitialGuessFactor == 5

\* read_object of the combined program.
read_object_combined(files, sha) ==
    IF Len(sha) < 2 THEN ReadResult(FALSE, <<>>, "out_of_range")
    ELSE LET file == read_path(sha)
         IN  IF file \notin DOMAIN files THEN ReadResult(TRUE, <<>>, "")
             ELSE LET compressed == files[file]
                      u == uncompress_loop(compressed, Len(compressed) * InitialGuessFactor)
                      null_pos == find_nul(u.out)
                  IN  IF u.ret # "Z_OK"
                      THEN ReadResult(TRUE, <<>>, "Decompression failed!")
                      ELSE IF null_pos < 0 THEN ReadResult(TRUE, <<>>, "")
                      ELSE ReadResult(TRUE, substr_from(u.out, null_pos + 1), "")

read_object(b, files, sha) ==
    IF b = "tinygit" THEN read_object_tinygit(files, sha)
    ELSE read_object_combined(files, sha)

\* The bytes the decompression of a build hands to the header search: what
\* the inflate loop of tinygit.cpp appended to result, or the destination
\* buffer of the combined program after its last uncompress.
decompressed(b, z) ==
    IF b = "tinygit" THEN Inflate(z).out
    ELSE uncompress_loop(z, Len(z) * InitialGuessFactor).out

(***************************************************************************)
(* References                                                              *)
(***************************************************************************)
\* A file of the repository outside objects/: absent, or its content.
NoFile == [exists |-> FALSE, data |-> <<>>]

File(bytes) == [exists |-> TRUE, data |-> bytes]

\* "ref: refs/heads/master\n"
HeadLine ==
    <<114, 101, 102, 58, 32, 114, 101, 102, 115, 47, 104, 101, 97, 100, 115, 47,
      109, 97, 115, 116, 101, 114, 10>>

\* std::ofstream(".tinygit/refs/heads/master") << sha << "\n": nothing happens
\* when refs/heads does not exist, since the open fails unnoticed.
ref_write(heads, ref, sha) == IF heads THEN File(sha \o LF) ELSE ref

IsSpace(c) == c = 32 \/ c \in 9..13

\* std::ifstream head(...); head >> sha: the first whitespace-delimited word
\* of the file; the extraction fails, leaving sha empty, when the file is
\* absent or holds no word.
extract_token(f) ==
    LET s == f.data
        n == Len(s)
        words == {i \in 1..n : ~IsSpace(s[i])}
        start == IF words = {} THEN n + 1
                 ELSE CHOOSE i \in words : \A j \in words : i <= j
        stops == {i \in start..n : IsSpace(s[i])}
        stop == IF stops = {} THEN n
                ELSE (CHOOSE i \in stops : \A j \in stops : i <= j) - 1
    IN  IF f.exists /\ words # {}
        THEN [ok |-> TRUE, sha |-> SubSeq(s, start, stop)]
        ELSE [ok |-> FALSE, sha |-> <<>>]

(***************************************************************************)
(* State                                                                   *)
(***************************************************************************)
VARIABLES
    build,      \* which of the two programs runs
    inputs,     \* the two (kind, payload) pairs the callers of the store use;
                \* for the command line, the content of the two working files
    objects,    \* .tinygit/objects: shard path -> file content
    heads,      \* whether the directory .tinygit/refs/heads exists
    HEAD,       \* the file .tinygit/HEAD
    master,     \* the file .tinygit/refs/heads/master
    now,        \* the last value std::time returned
    call,       \* the last direct write_object / read_object call and its result
    proc,       \* the last command run and what the process did
    ids,        \* history: (input, id) of every write that returned an id
    stored,     \* history: (input, file content) after every undisturbed write
    good,       \* inputs whose latest write was undisturbed
    twice,      \* inputs written undisturbed at least twice
    calls,      \* number of calls / commands so far
    pc          \* where each of two concurrent write_object calls stands

vars ==
    <<build, inputs, objects, heads, HEAD, master, now, call, proc, ids,
      stored, good, twice, calls, pc>>

NoCall ==
    [op |-> "none", in |-> [kind |-> "blob", data |-> <<>>], env |-> "ok",
     returned |-> TRUE, sha |-> <<>>, ret |-> <<>>, err |-> ""]

NoProc ==
    [cmd |-> "none", env |-> "ok", exit |-> 0, crashed |-> FALSE,
     stdout |-> "", stderr |-> "", id |-> <<>>, printed |-> <<>>,
     read |-> <<>>, payload |-> <<>>]

\* No write_object call is under way in another process.
NoWriters == [w \in 1..2 |-> "idle"]

\* The id write_object computes for an input.
id_of(b, x) == sha1(store_of(b, x.data, x.kind))

\* What one write_object call adds to the histories.
Histories(x, env, r) ==
    /\ ids' = IF r.returned /\ r.sha # <<>>
              THEN ids \cup {[in |-> x, sha |-> r.sha]} ELSE ids
    /\ stored' = IF env = "ok"
                 THEN stored \cup {[in |-> x, bytes |-> r.objects[write_path(r.sha)]]}
                 ELSE stored
    /\ good' = IF env = "ok" THEN good \cup {x} ELSE good \ {x}
    /\ twice' = IF env = "ok" /\ (\E s \in stored : s.in = x)
                THEN twice \cup {x} ELSE twice

InitCommon ==
    /\ build \in Builds
    /\ objects = NoFiles
    /\ heads = FALSE
    /\ HEAD = NoFile
    /\ master = NoFile
    /\ now = 1
    /\ call = NoCall
    /\ proc = NoProc
    /\ ids = {}
    /\ stored = {}
    /\ good = {}
    /\ twice = {}
    /\ calls = 0
    /\ pc = NoWriters

(***************************************************************************)
(* The object store called directly                                        *)
(***************************************************************************)
InitStore == InitCommon /\ inputs \in Inputs \X Inputs

\* A caller runs write_object(inputs[i].data, inputs[i].kind) in environment env.
CallWrite(i, env) ==
    /\ calls < MaxOps
    /\ LET x == inputs[i]
           r == write_object(build, objects, x.data, x.kind, env)
       IN  /\ objects' = r.objects
           /\ call' = [op |-> "write", in |-> x, env |-> env,
                       returned |-> r.returned, sha |-> r.sha, ret |-> <<>>,
                       err |-> r.err]
           /\ Histories(x, env, r)
    /\ calls' = calls + 1
    /\ UNCHANGED <<pc, build, inputs, heads, HEAD, master, now, proc>>

\* A caller runs read_object on the id of inputs[i].
CallRead(i) ==
    /\ calls < MaxOps
    /\ LET x == inputs[i]
           sha == id_of(build, x)
           r == read_object(build, objects, sha)
       IN  call' = [op |-> "read", in |-> x, env |-> "ok",
                    returned |-> r.returned, sha |-> sha, ret |-> r.ret,
                    err |-> r.err]
    /\ calls' = calls + 1
    /\ UNCHANGED <<pc, build, inputs, objects, heads, HEAD, master, now, proc, ids,
                   stored, good, twice>>

NextStore ==
    \/ \E i \in 1..2, env \in Envs : CallWrite(i, env)
    \/ \E i \in 1..2 : CallRead(i)

SpecStore == InitStore /\ [][NextStore]_vars

(***************************************************************************)
(* Two processes in write_object at once, and a reader                     *)
(***************************************************************************)
\* Process w, writing inputs[w], has hashed and compressed its store,
\* created the shard directory and now constructs the std::ofstream: the
\* object file is created, or truncated if it exists.
WriterOpen(w) ==
    /\ pc[w] # "open"
    /\ objects' = ofstream_open(objects, write_path(id_of(build, inputs[w])))
    /\ pc' = [pc EXCEPT ![w] = "open"]
    /\ UNCHANGED <<build, inputs, heads, HEAD, master, now, call, proc, ids,
                   stored, good, twice, calls>>

\* Process w runs out.write and returns: the stream's destructor flushes
\* the compressed bytes to the file from offset 0, and the caller gets the id.
WriterClose(w) ==
    /\ pc[w] = "open"
    /\ LET x == inputs[w]
           r == write_object(build, objects, x.data, x.kind, "ok")
       IN  /\ objects' = r.objects
           /\ ids' = ids \cup {[in |-> x, sha |-> r.sha]}
    /\ pc' = [pc EXCEPT ![w] = "done"]
    /\ UNCHANGED <<build, inputs, heads, HEAD, master, now, call, proc,
                   stored, good, twice, calls>>

NextConc ==
    \/ \E w \in 1..2 : WriterOpen(w)
    \/ \E w \in 1..2 : WriterClose(w)
    \/ \E i \in 1..2 : CallRead(i)

SpecConc == InitStore /\ [][NextConc]_vars

(***************************************************************************)
(* read_object on a store that holds one object file, whole or cut short   *)
(***************************************************************************)
\* The leading parts of a file, the whole file included: what a write that
\* stopped early leaves on disk.
Prefixes(z) == {SubSeq(z, 1, n) : n \in 0..Len(z)}

\* The store holds the object file write_object makes for one input, or a
\* leading part of it.
InitRead ==
    /\ build \in Builds
    /\ \E x \in Inputs \cup {Long} :
           /\ inputs = <<x, x>>
           /\ \E z \in Prefixes(compress(store_of(build, x.data, x.kind))) :
                  objects = put_file(NoFiles, write_path(id_of(build, x)), z)
    /\ heads = FALSE
    /\ HEAD = NoFile
    /\ master = NoFile
    /\ now = 1
    /\ call = NoCall
    /\ proc = NoProc
    /\ ids = {}
    /\ stored = {}
    /\ good = {}
    /\ twice = {}
    /\ calls = 0
    /\ pc = NoWriters

NextRead == \E i \in 1..2 : CallRead(i)

SpecRead == InitRead /\ [][NextRead]_vars

(***************************************************************************)
(* The command line                                                        *)
(***************************************************************************)
\* The working tree holds two files, "hello\n" and an empty one.
WorkTree == <<[kind |-> "blob", data |-> Hello], [kind |-> "blob", data |-> <<>>]>>

Init == InitCommon /\ inputs = WorkTree

\* An exception nobody catches: std::terminate aborts the process.
Crashed(cmd, env, what) ==
    [NoProc EXCEPT !.cmd = cmd, !.env = env, !.exit = 134, !.crashed = TRUE,
                   !.stderr = what]

\* tinygit init
CmdInit ==
    /\ calls < MaxOps
    /\ heads' = TRUE
    /\ HEAD' = File(HeadLine)
    /\ proc' = [NoProc EXCEPT !.cmd = "init",
                    !.stdout = IF build = "tinygit" THEN "Initialized empty tinygit repo"
                               ELSE "Initialized empty tinygit repository in ./.tinygit/"]
    /\ calls' = calls + 1
    /\ UNCHANGED <<pc, build, inputs, objects, master, now, call, ids, stored, good, twice>>

\* The body of add once the file's content has been read.
add_content(data, env) ==
    LET x == [kind |-> "blob", data |-> data]
        r == write_object(build, objects, data, "blob", env)
    IN  /\ objects' = r.objects
        /\ Histories(x, env, r)
        /\ proc' = IF ~r.returned THEN Crashed("add", env, r.err)
                   ELSE [NoProc EXCEPT !.cmd = "add", !.env = env, !.stderr = r.err,
                             !.stdout = IF build = "combined" THEN "Staged" ELSE "",
                             !.id = IF build = "combined" THEN r.sha ELSE <<>>,
                             !.payload = data]

\* tinygit add <working file i>
CmdAdd(i, env) ==
    /\ calls < MaxOps
    /\ add_content(inputs[i].data, env)
    /\ calls' = calls + 1
    /\ UNCHANGED <<pc, build, inputs, heads, HEAD, master, now, call>>

\* tinygit add <a path that cannot be opened>: combined reports it and
\* returns 1; tinygit.cpp reads nothing from the stream and stores that.
CmdAddMissing(env) ==
    /\ calls < MaxOps
    /\ IF build = "combined"
       THEN /\ proc' = [NoProc EXCEPT !.cmd = "add", !.env = env, !.exit = 1,
                                      !.stderr = "fatal: could not open file"]
            /\ UNCHANGED <<objects, ids, stored, good, twice>>
       ELSE add_content(<<>>, env)
    /\ calls' = calls + 1
    /\ UNCHANGED <<pc, build, inputs, heads, HEAD, master, now, call>>

\* tinygit commit -m msg; std::time returns t1, and t2 at the second call
\* tinygit.cpp makes.
CmdCommit(msg, t1, t2, env) ==
    /\ calls < MaxOps
    /\ now <= t1 /\ t1 <= t2
    /\ build = "combined" => t2 = t1
    /\ LET payload == IF build = "tinygit" THEN commit_payload_tinygit(msg, t1, t2)
                      ELSE commit_payload_combined(msg, t1)
           x == [kind |-> "commit", data |-> payload]
           r == write_object(build, objects, payload, "commit", env)
       IN  /\ objects' = r.objects
           /\ Histories(x, env, r)
           /\ master' = IF r.returned THEN ref_write(heads, master, r.sha) ELSE master
           /\ proc' = IF ~r.returned THEN Crashed("commit", env, r.err)
                      ELSE [NoProc EXCEPT !.cmd = "commit", !.env = env,
                                !.stderr = r.err, !.stdout = "[master",
                                !.id = substr(r.sha, 0, 7), !.printed = msg,
                                !.payload = payload]
    /\ now' = t2
    /\ calls' = calls + 1
    /\ UNCHANGED <<pc, build, inputs, heads, HEAD, call>>

\* tinygit log
CmdLog ==
    /\ calls < MaxOps
    /\ LET tok == extract_token(master)
           r == read_object(build, objects, tok.sha)
       IN  proc' =
             IF build = "combined" /\ ~tok.ok
             THEN [NoProc EXCEPT !.cmd = "log", !.stderr = "fatal: no commits yet"]
             ELSE IF ~r.returned
             THEN [Crashed("log", "ok", r.err) EXCEPT !.read = <<tok.sha>>]
             ELSE [NoProc EXCEPT !.cmd = "log", !.stderr = r.err,
                       !.stdout = IF build = "combined" THEN "commit" ELSE "payload",
                       !.id = IF build = "combined" THEN tok.sha ELSE <<>>,
                       !.printed = r.ret, !.read = <<tok.sha>>]
    /\ calls' = calls + 1
    /\ UNCHANGED <<pc, build, inputs, objects, heads, HEAD, master, now, call, ids,
                   stored, good, twice>>

\* tinygit without a command: usage, return 1.
CmdUsage ==
    /\ calls < MaxOps
    /\ proc' = [NoProc EXCEPT !.cmd = "usage", !.exit = 1, !.stderr = "usage"]
    /\ calls' = calls + 1
    /\ UNCHANGED <<pc, build, inputs, objects, heads, HEAD, master, now, call, ids,
                   stored, good, twice>>

\* Any other command line, add and commit with other argument counts included.
CmdUnknown ==
    /\ calls < MaxOps
    /\ proc' = [NoProc EXCEPT !.cmd = "unknown",
                    !.stderr = IF build = "tinygit" THEN "unknown command"
                               ELSE "is not a tinygit command"]
    /\ calls' = calls + 1
    /\ UNCHANGED <<pc, build, inputs, objects, heads, HEAD, master, now, call, ids,
                   stored, good, twice>>

Next ==
    \/ CmdInit
    \/ \E i \in 1..2, env \in Envs : CmdAdd(i, env)
    \/ \E env \in Envs : CmdAddMissing(env)
    \/ \E msg \in Messages, t1 \in Times, t2 \in Times, env \in Envs :
           CmdCommit(msg, t1, t2, env)
    \/ CmdLog
    \/ CmdUsage
    \/ CmdUnknown

Spec == Init /\ [][Next]_vars
(***************************************************************************)
(* Properties of the object store (under SpecStore)                        *)
(***************************************************************************)
\* C1: round trip.  Reading the id of an input whose latest write was
\* undisturbed returns exactly the payload, for every kind and payload, the
\* empty payload and payloads with NUL bytes included.
C1_RoundTrip ==
    (call.op = "read" /\ call.in \in good)
        => (call.returned /\ call.ret = call.in.data)

\* C2: the id write_object returns is the SHA-1 of kind, a space, the decimal
\* length, one NUL byte and the payload; for the blob "hello\n" that is
\* ce013625030ba8dba906f756967f9e9ca394464a.
C2_CanonicalId ==
    (call.op = "write" /\ call.returned /\ call.sha # <<>>)
        => /\ call.sha = sha1_compute(KindName[call.in.kind] \o SP
                             \o to_string(Len(call.in.data)) \o NUL \o call.in.data)
           /\ call.in = [kind |-> "blob", data |-> Hello]
                => call.sha = <<99, 101, 48, 49, 51, 54, 50, 53, 48, 51, 48, 98,
                                97, 56, 100, 98, 97, 57, 48, 54, 102, 55, 53, 54,
                                57, 54, 55, 102, 57, 101, 57, 99, 97, 51, 57, 52,
                                52, 54, 52, 97>>

\* One step that is an undisturbed write of an input whose previous write
\* was undisturbed too: it returns the id an earlier write returned, and
\* leaves the store as it was (same paths, same bytes in every file).
C3_SecondWrite ==
    (call'.op = "write" /\ call'.env = "ok" /\ call'.in \in good /\ calls' = calls + 1)
        => /\ objects' = objects
           /\ \E a \in ids : a.in = call'.in /\ a.sha = call'.sha

\* C3: idempotence of write.  Every write of the same (kind, payload) that
\* returns an id returns the same one, the file holds the same bytes after
\* every undisturbed write of it, and a repeated undisturbed write leaves
\* the whole store unchanged.
C3_Idempotent ==
    [][/\ C3_SecondWrite
       /\ \A a \in ids', b \in ids' : a.in = b.in => a.sha = b.sha
       /\ \A a \in stored', b \in stored' : a.in = b.in => a.bytes = b.bytes]_vars

\* C3 witness: some input has been written twice without disturbance, the
\* second time just now.
C3_Witness == call.op = "write" /\ call.env = "ok" /\ call.in \in twice

\* C4: content addressing.  Two writes return the same id exactly when kind
\* and payload are both equal, so different objects never share a path.
C4_ContentAddressed ==
    \A a \in ids, b \in ids :
        /\ (a.sha = b.sha) <=> (a.in = b.in)
        /\ a.in # b.in => write_path(a.sha) # write_path(b.sha)

\* C4 witness: ids were returned for the same payload under two kinds, and
\* they differ.
C4_Witness ==
    \E a \in ids, b \in ids :
        a.in.kind # b.in.kind /\ a.in.data = b.in.data /\ a.sha # b.sha

\* C5: sharding.  Every file in the store lies under a directory named by
\* the first 2 characters of a returned id, in a file named by the other
\* 38; read_object looks at the path write_object wrote; distinct ids have
\* distinct paths.
C5_Sharding ==
    /\ \A p \in DOMAIN objects :
           /\ Len(p.dir) = 2 /\ Len(p.file) = 38
           /\ \E a \in ids : a.sha = p.dir \o p.file /\ p.dir = SubSeq(a.sha, 1, 2)
    /\ \A a \in ids :
           /\ read_path(a.sha) = write_path(a.sha)
           /\ write_path(a.sha).dir \o write_path(a.sha).file = a.sha
    /\ \A a \in ids, b \in ids : a.sha # b.sha => read_path(a.sha) # read_path(b.sha)

\* C5 witness: two objects with different ids are stored.
C5_Witness ==
    /\ Cardinality(DOMAIN objects) = 2
    /\ \E a \in ids, b \in ids : a.sha # b.sha

\* C6: the outcomes of read_object are not collapsed.  What a read of an id
\* with no stored file, or of a file that is no valid object, hands back to
\* its caller differs from what a read of a stored empty blob hands back,
\* the empty payload returned normally.
C6_DistinctOutcomes ==
    call.op = "read" =>
        LET p == read_path(call.sha)
            absent == p \notin DOMAIN objects
            corrupt == /\ p \in DOMAIN objects
                       /\ \/ Inflate(objects[p]).status # "end"
                          \/ find_nul(Inflate(objects[p]).out) < 0
        IN  (absent \/ corrupt) => ~(call.returned /\ call.ret = <<>>)

\* C7: a failed write is signalled.  When the directory cannot be created,
\* the file cannot be opened or written, or compression fails, write_object
\* does not return an id.
C7_FailureSignalled ==
    (call.op = "write" /\ call.env # "ok")
        => ~(call.returned /\ call.sha # <<>>)

(***************************************************************************)
(* Properties of the command line (under Spec)                             *)
(***************************************************************************)
\* C8: master follows the latest commit.  After a commit that ended without
\* an error (exit 0, nothing on stderr), master resolves to the full
\* 40-character id of that commit's object, and the object reads back as
\* the commit's payload.
C8_MasterFollowsCommit ==
    (proc.cmd = "commit" /\ ~proc.crashed /\ proc.exit = 0 /\ proc.stderr = "")
        => LET X == id_of(build, [kind |-> "commit", data |-> proc.payload])
           IN  /\ Len(X) = 40
               /\ extract_token(master) = [ok |-> TRUE, sha |-> X]
               /\ read_object(build, objects, X).ret = proc.payload

\* C9: log before any commit.  With master never written, log reports that
\* there are no commits: it does not crash, calls read_object with no id at
\* all, and prints nothing to stdout.
C9_LogBeforeCommit ==
    (proc.cmd = "log" /\ ~master.exists)
        => /\ ~proc.crashed
           /\ proc.stderr = "fatal: no commits yet"
           /\ proc.read = <<>>
           /\ proc.stdout = "" /\ proc.printed = <<>>

\* C10: only commit moves master.  A step that changes the reference file
\* is a commit, and a commit whose write_object threw or returned no id
\* leaves the file as it was.
C10_OnlyCommitMovesMaster ==
    [][/\ master' # master => proc'.cmd = "commit"
       /\ (proc'.cmd = "commit" /\ calls' = calls + 1
               /\ (proc'.crashed \/ proc'.id = <<>>))
            => master' = master]_vars

\* C11: exit codes.  The process exits with 1 after a usage error (no
\* command, an unknown command or argument shape) and after a fatal I/O error
\* (an input file that cannot be opened, an object file or directory that
\* cannot be written, a reference file that cannot be written because
\* refs/heads is missing), and with 0 after every other command.
C11_ExitCodes ==
    LET usage == proc.cmd \in {"usage", "unknown"}
        unreadable == proc.cmd = "add" /\ proc.stderr = "fatal: could not open file"
        nostore == /\ proc.cmd \in {"add", "commit"}
                   /\ proc.env \in {"nodir", "noopen", "nowrite"}
        noref == proc.cmd = "commit" /\ ~heads
        fatal == usage \/ unreadable \/ nostore \/ noref
    IN  proc.cmd # "none" =>
            /\ fatal => proc.exit = 1
            /\ (~fatal /\ proc.env = "ok") => proc.exit = 0

(***************************************************************************)
(* Properties of decompression (under SpecRead)                            *)
(***************************************************************************)
\* C12: decompression growth.  Reading an object file that write_object
\* wrote decodes the whole stored encoding without an error, whatever the
\* ratio of its size to the compressed size; every retry of the
\* grow-and-retry loop runs with a strictly larger buffer than the one
\* before; and reading a file that is no valid compressed stream ends in a
\* signalled error with nothing returned, never in a partial result.
C12_DecompressionGrowth ==
    call.op = "read" =>
        LET z == objects[read_path(call.sha)]
            store == store_of(build, call.in.data, call.in.kind)
            sizes == uncompress_sizes(z, Len(z) * InitialGuessFactor)
        IN  /\ z = compress(store) =>
                   /\ call.returned /\ call.err = ""
                   /\ decompressed(build, z) = store
            /\ \A i \in 1..(Len(sizes) - 1) : sizes[i + 1] > sizes[i]
            /\ Inflate(z).status # "end" =>
                   /\ ~call.returned \/ call.err # ""
                   /\ call.ret = <<>>

(***************************************************************************)
(* Properties of concurrent writes (under SpecConc)                        *)
(***************************************************************************)
\* C13: object writes are all-or-nothing under concurrent processes.  A
\* read_object that runs while other processes write finds the object file
\* either absent or holding the complete compressed encoding, never empty
\* or partial, in particular not once a write of that object has returned;
\* and when no write is under way, every object file present is complete.
C13_AllOrNothing ==
    [][/\ (call'.op = "read" /\ calls' = calls + 1) =>
              LET p == read_path(call'.sha)
              IN  p \in DOMAIN objects =>
                      objects[p] = compress(store_of(build, call'.in.data,
                                                     call'.in.kind))
       /\ (\A w \in 1..2 : pc'[w] # "open") =>
              \A w \in 1..2 :
                  LET p == write_path(id_of(build, inputs[w]))
                  IN  p \in DOMAIN objects' =>
                          objects'[p] = compress(store_of(build, inputs[w].data,
                                                          inputs[w].kind))]_vars

(***************************************************************************)
(* Properties of the repository as a whole (under Spec)                    *)
(***************************************************************************)
\* C14: stored objects are immutable and never deleted.  Across every
\* command, an object file that holds a complete object is still there
\* afterwards, read_object returns for its id what it returned before, and
\* no path leaves the store.
C14_ObjectsImmutable ==
    [][/\ DOMAIN objects \subseteq DOMAIN objects'
       /\ \A a \in ids :
              LET p == read_path(a.sha)
              IN  (p \in DOMAIN objects /\ Inflate(objects[p]).status = "end")
                      => /\ read_object(build, objects', a.sha)
                              = read_object(build, objects, a.sha)
                         /\ objects'[p] = objects[p]]_vars

\* C15: reference integrity.  Whenever the master reference file exists, it
\* holds exactly one 40-character id followed by a newline, the object file
\* of that id is in the store and complete, and it is a commit object whose
\* payload read_object returns without an error.
C15_ReferenceIntegrity ==
    master.exists =>
        LET tok == extract_token(master)
            p == read_path(tok.sha)
            r == read_object(build, objects, tok.sha)
        IN  /\ tok.ok /\ Len(tok.sha) = 40 /\ master.data = tok.sha \o LF
            /\ p \in DOMAIN objects
            /\ Inflate(objects[p]).status = "end"
            /\ r.returned /\ r.err = ""
            /\ \E c \in CommitPayloads(build) :
                   /\ tok.sha = id_of(build, [kind |-> "commit", data |-> c])
                   /\ Inflate(objects[p]).out = store_of(build, c, "commit")

====
